---- MODULE Spec2Model ----
(***************************************************************************)
(* Model of AFQ/surface.py: streamlines_to_endpoints.                      *)
(*                                                                         *)
(* One call of the function is a run of the state machine: Init is the     *)
(* state at function entry (the arguments bound, every local unset), and   *)
(* each action is one statement group of the body, in source order.        *)
(*                                                                         *)
(* Geometry: points lie on a line (x, 0, 0), so a point is its integer x,  *)
(* the Euclidean distance of the spatial hash is |x - v| and an affine is  *)
(* the homogeneous matrix <<a, b>, <0, 1>> acting as x |-> a*x + b.         *)
(* A numpy vector of length n is a function on 0..n-1 (numpy's indexing);  *)
(* a python list is a sequence.  A float produced by numpy's true division *)
(* is an exact rational in lowest terms, or nan / inf.                     *)
(***************************************************************************)
EXTENDS Integers, Sequences, FiniteSets, TLC

----------------------------------------------------------------------------
(* Bounds of the explored inputs *)

MaxStreamlines == 2

(* Points per streamline: none (malformed), one (head = tail), two.  Only  *)
(* sl[0] and sl[-1] are ever read, so longer streamlines add no behaviour. *)
PointCounts == {0, 1, 2}

(* x coordinates a streamline point may take *)
Coords == {0, 1}

(* Vertex coordinates of the two surfaces a hemisphere may have *)
MeshA == <<0, 1, 5>>
MeshB == <<4, 2>>

(* The surfaces of a subject as <<lh, rh>>, and the surface of a subject   *)
(* whose hemis mapping lacks 'rh'                                          *)
MeshPairs == {<<MeshA, MeshB>>, <<MeshB, MeshA>>, <<MeshA, MeshA>>}
LhOnlyMesh == MeshA

(* distance_threshold=2 in the signature *)
DefaultThreshold == 2

(* Offered values of distance_threshold *)
Thresholds == {1, DefaultThreshold}

Outputs == {"count", "pdf", "mean"}
Ends == {"head", "tail", "both", "middle"}

(* affine=None, the identity, and a translation by one *)
NoAffine == [given |-> FALSE, a |-> 0, b |-> 0]
IdentityAffine == [given |-> TRUE, a |-> 1, b |-> 0]
ShiftAffine == [given |-> TRUE, a |-> 1, b |-> 1]
Affines == {NoAffine, IdentityAffine, ShiftAffine}

Hemis == {"lh", "rh"}

----------------------------------------------------------------------------
(* Arithmetic helpers *)

Abs(x) == IF x < 0 THEN -x ELSE x

RECURSIVE GCD(_, _)
GCD(a, b) == IF b = 0 THEN a ELSE GCD(b, a % b)

RECURSIVE SumTo(_, _)
(* f[0] + ... + f[n-1] *)
SumTo(f, n) == IF n = 0 THEN 0 ELSE SumTo(f, n - 1) + f[n - 1]

(* len() of a numpy vector *)
len(f) == Cardinality(DOMAIN f)

(* np.sum of an integer vector *)
np_sum(f) == SumTo(f, len(f))

(* np.zeros(n, dtype=int) *)
np_zeros(n) == [v \in 0..(n - 1) |-> 0]

(* Floats: exact rationals in lowest terms, nan and inf *)
Rat(n, m) == [kind |-> "fin", num |-> n \div GCD(n, m), den |-> m \div GCD(n, m)]
NaN == [kind |-> "nan", num |-> 0, den |-> 0]
Inf == [kind |-> "inf", num |-> 0, den |-> 0]

TrueDivideZeroAsZero(a, b) ==
    IF b = 0 THEN Rat(0, 1) ELSE Rat(a, b)

(* a / b on numpy integers: 0/0 is nan and n/0 is inf, with a warning only *)
TrueDivide(a, b) ==
    IF b = 0 THEN (IF a = 0 THEN NaN ELSE Inf) ELSE Rat(a, b)

RatAdd(p, q) ==
    IF p.kind = "fin" /\ q.kind = "fin"
    THEN Rat(p.num * q.den + q.num * p.den, p.den * q.den)
    ELSE NaN

RECURSIVE RatSumTo(_, _)
RatSumTo(f, n) == IF n = 0 THEN Rat(0, 1) ELSE RatAdd(RatSumTo(f, n - 1), f[n - 1])

----------------------------------------------------------------------------
(* The statements of the body as operators *)

ValidOutputAny(output) == TRUE

(* line 76: output != 'count' and output != 'pdf' raises *)
ValidOutput(output) == output = "count" \/ output = "pdf"

(* line 79-80: a trk object is replaced by its streamlines member *)
Unwrap(s) == IF s.isTrk THEN [isTrk |-> FALSE, data |-> s.data] ELSE s

(* sl[0] / sl[-1] raise IndexError on an empty streamline *)
AllNonEmpty(sls) == \A k \in DOMAIN sls : Len(sls[k]) > 0

(* line 82 *)
Heads(sls) == [k \in DOMAIN sls |-> sls[k][1]]

(* line 83 *)
Tails(sls) == [k \in DOMAIN sls |-> sls[k][Len(sls[k])]]

SelectEndpointsSwapped(streamline_end, heads, tails) ==
    IF streamline_end = "head" THEN [ok |-> TRUE, pts |-> tails]
    ELSE IF streamline_end = "tail" THEN [ok |-> TRUE, pts |-> heads]
    ELSE IF streamline_end = "both" THEN [ok |-> TRUE, pts |-> heads \o tails]
    ELSE [ok |-> FALSE, pts |-> << >>]

(* line 85-92: the if/elif chain; ok = FALSE is the else branch *)
SelectEndpoints(streamline_end, heads, tails) ==
    IF streamline_end = "head" THEN [ok |-> TRUE, pts |-> heads]
    ELSE IF streamline_end = "tail" THEN [ok |-> TRUE, pts |-> tails]
    ELSE IF streamline_end = "both" THEN [ok |-> TRUE, pts |-> heads \o tails]
    ELSE [ok |-> FALSE, pts |-> << >>]

(* line 96: the affine specification as a homogeneous matrix *)
to_affine(aff) == << <<aff.a, aff.b>>, <<0, 1>> >>

apply_affine_wrong_column(M, pts) ==
    [k \in DOMAIN pts |-> M[1][1] * pts[k] + M[2][2] * 1]

(* line 97: the matrix times (x, 1), first row *)
apply_affine(M, pts) ==
    [k \in DOMAIN pts |-> M[1][1] * pts[k] + M[1][2] * 1]

HemiLoopLhOnly == <<"lh">>

(* line 101: for h in ['lh', 'rh'] *)
HemiLoop == <<"lh", "rh">>

HemiAlwaysLh(nysubj, h) == nysubj.hemis["lh"]

(* line 102: nysubj.hemis[h] *)
Hemi(nysubj, h) == nysubj.hemis[h]

(* Distance from point x to the nearest vertex of a surface *)
NearestDistance(verts, x) ==
    CHOOSE dd \in {Abs(x - verts[j]) : j \in DOMAIN verts} :
        \A j \in DOMAIN verts : dd <= Abs(x - verts[j])

(* 0-based index of the nearest vertex (the lowest index among equals) *)
NearestVertex(verts, x) ==
    (CHOOSE j \in DOMAIN verts :
        /\ Abs(x - verts[j]) = NearestDistance(verts, x)
        /\ \A j2 \in DOMAIN verts :
              Abs(x - verts[j2]) = NearestDistance(verts, x) => j <= j2) - 1

(* line 108: spatial_hash.query(endpoints) -> (d, vertex_i) *)
Query(verts, pts) ==
    [d |-> [k \in DOMAIN pts |-> NearestDistance(verts, pts[k])],
     vertex_i |-> [k \in DOMAIN pts |-> NearestVertex(verts, pts[k])]]

WithinThresholdInclusive(d, distance_threshold) ==
    [k \in DOMAIN d |-> d[k] <= distance_threshold]

(* line 111: i = d < distance_threshold *)
WithinThreshold(d, distance_threshold) ==
    [k \in DOMAIN d |-> d[k] < distance_threshold]

RECURSIVE BoolIndex(_, _)
(* line 112: vertex_i[i], the entries of xs where the mask holds, in order *)
BoolIndex(xs, mask) ==
    IF xs = << >> THEN << >>
    ELSE (IF Head(mask) THEN <<Head(xs)>> ELSE << >>)
            \o BoolIndex(Tail(xs), Tail(mask))

SeqMax(xs) == CHOOSE m \in {xs[k] : k \in DOMAIN xs} :
                  \A k \in DOMAIN xs : xs[k] <= m

bincount_presence(xs) ==
    IF xs = << >> THEN np_zeros(0)
    ELSE [v \in 0..SeqMax(xs) |->
             IF \E k \in DOMAIN xs : xs[k] = v THEN 1 ELSE 0]

(* line 114: np.bincount, a vector of length max(xs) + 1 (0 for no input) *)
bincount(xs) ==
    IF xs = << >> THEN np_zeros(0)
    ELSE [v \in 0..SeqMax(xs) |-> Cardinality({k \in DOMAIN xs : xs[k] = v})]

(* line 115: epcount[:len(vcount)] = vcount *)
AssignPrefix(epcount, vcount) ==
    [v \in DOMAIN epcount |-> IF v < len(vcount) THEN vcount[v] ELSE epcount[v]]

NormalizeByLength(epcount) ==
    [v \in DOMAIN epcount |-> TrueDivide(epcount[v], len(epcount))]

(* line 117: epcount / np.sum(epcount) *)
Normalize(epcount) ==
    [v \in DOMAIN epcount |-> TrueDivide(epcount[v], np_sum(epcount))]

ProgramOrderLateCheck ==
    <<"unwrap", "extract", "check_output", "select", "affine", "loop", "return">>

(* line 76-120: the statement groups of the body in source order *)
ProgramOrder ==
    <<"check_output", "unwrap", "extract", "select", "affine", "loop", "return">>

After(p) ==
    ProgramOrder[(CHOOSE k \in DOMAIN ProgramOrder : ProgramOrder[k] = p) + 1]

----------------------------------------------------------------------------
(* The inputs of a call *)

Streamline == UNION {[1..n -> Coords] : n \in PointCounts}

StreamlineLists == UNION {[1..n -> Streamline] : n \in 0..MaxStreamlines}

(* A hemisphere: its vertex count and the vertex coordinates of its surface *)
HemiOf(verts) == [vertex_count |-> Len(verts), verts |-> verts]

(* Subjects: both hemispheres present, or a hemis mapping without 'rh' *)
SubjectOf(p) ==
    [hemis |-> [h \in Hemis |-> HemiOf(IF h = "lh" THEN p[1] ELSE p[2])]]

Subjects ==
    {SubjectOf(p) : p \in MeshPairs}
    \cup {[hemis |-> [h \in {"lh"} |-> HemiOf(LhOnlyMesh)]]}

NoMap == [h \in {} |-> 0]
NoError == [type |-> "none", msg |-> "none"]

VARIABLES
    args,             \* the arguments of the call (never assigned)
    pc,               \* the statement group to run next, "done" or "raised"
    streamlines,      \* the local streamlines (rebound by line 80)
    trk_heads,        \* line 82
    trk_tails,        \* line 83
    endpoints,        \* line 86-97
    hi,               \* position of the for loop in HemiLoop
    endpoint_counts,  \* line 100, filled by line 118
    loc,              \* per hemisphere, the locals of its loop iteration
    steps,            \* history: the computation steps that have run
    raised,           \* the exception that ended the call, if any
    returned          \* the value handed to the caller at "done"

vars == <<args, pc, streamlines, trk_heads, trk_tails, endpoints, hi,
          endpoint_counts, loc, steps, raised, returned>>

Init ==
    /\ args \in [nysubj : Subjects,
                 streamlines : [isTrk : BOOLEAN, data : StreamlineLists],
                 streamline_end : Ends,
                 distance_threshold : Thresholds,
                 affine : Affines,
                 output : Outputs]
    /\ pc = ProgramOrder[1]
    /\ streamlines = args.streamlines
    /\ trk_heads = << >>
    /\ trk_tails = << >>
    /\ endpoints = << >>
    /\ hi = 1
    /\ endpoint_counts = NoMap
    /\ loc = NoMap
    /\ steps = {}
    /\ raised = NoError
    /\ returned = NoMap

(* raise: the call ends, nothing is returned *)
Raise(type, msg) ==
    /\ pc' = "raised"
    /\ raised' = [type |-> type, msg |-> msg]
    /\ UNCHANGED returned

Goto(p) ==
    /\ pc' = p
    /\ UNCHANGED <<raised, returned>>

(* line 76-77 *)
CheckOutput ==
    /\ pc = "check_output"
    /\ IF ValidOutput(args.output)
       THEN Goto(After("check_output"))
       ELSE Raise("ValueError", "option output must be 'count' or 'pdf'")
    /\ UNCHANGED <<args, streamlines, trk_heads, trk_tails, endpoints, hi,
                   endpoint_counts, loc, steps>>

(* line 79-80 *)
UnwrapStreamlines ==
    /\ pc = "unwrap"
    /\ streamlines' = Unwrap(streamlines)
    /\ steps' = steps \cup {"unwrap"}
    /\ Goto(After("unwrap"))
    /\ UNCHANGED <<args, trk_heads, trk_tails, endpoints, hi,
                   endpoint_counts, loc>>

(* line 82-83 *)
ExtractEnds ==
    /\ pc = "extract"
    /\ steps' = steps \cup {"extract"}
    /\ IF AllNonEmpty(streamlines.data)
       THEN /\ trk_heads' = Heads(streamlines.data)
            /\ trk_tails' = Tails(streamlines.data)
            /\ Goto(After("extract"))
       ELSE /\ Raise("IndexError", "index 0 is out of bounds")
            /\ UNCHANGED <<trk_heads, trk_tails>>
    /\ UNCHANGED <<args, streamlines, endpoints, hi, endpoint_counts, loc>>

(* line 85-92 *)
ChooseEndpoints ==
    /\ pc = "select"
    /\ LET sel == SelectEndpoints(args.streamline_end, trk_heads, trk_tails)
       IN  IF sel.ok
           THEN /\ endpoints' = sel.pts
                /\ steps' = steps \cup {"select"}
                /\ Goto(After("select"))
           ELSE /\ Raise("ValueError",
                         "streamline_end must be 'head', 'tail', or 'both'")
                /\ UNCHANGED <<endpoints, steps>>
    /\ UNCHANGED <<args, streamlines, trk_heads, trk_tails, hi,
                   endpoint_counts, loc>>

(* line 94-97 *)
ApplyAffine ==
    /\ pc = "affine"
    /\ IF args.affine.given
       THEN /\ endpoints' = apply_affine(to_affine(args.affine), endpoints)
            /\ steps' = steps \cup {"affine"}
       ELSE UNCHANGED <<endpoints, steps>>
    /\ Goto(After("affine"))
    /\ UNCHANGED <<args, streamlines, trk_heads, trk_tails, hi,
                   endpoint_counts, loc>>

(* line 103-117: the body of the loop for one hemisphere: every local it   *)
(* binds, and 'out', the value line 118 stores                             *)
LoopBody(hemi, batch, distance_threshold, output) ==
    LET q == Query(hemi.verts, batch)
        i == WithinThreshold(q.d, distance_threshold)
        vertex_i == BoolIndex(q.vertex_i, i)
        vcount == bincount(vertex_i)
        zeros == np_zeros(hemi.vertex_count)
        epcount == AssignPrefix(zeros, vcount)
    IN  [queried |-> batch, d |-> q.d, i |-> i, vertex_i |-> vertex_i,
         vcount |-> vcount, fits |-> len(vcount) <= len(zeros),
         epcount |-> epcount,
         out |-> IF output = "pdf" THEN Normalize(epcount) ELSE epcount]

(* line 101-118: one iteration of the for loop.  A query with an empty    *)
(* batch either raises in the spatial hash or yields empty arrays; the    *)
(* source leaves this to the library, so both outcomes are explored.      *)
HemiIteration ==
    /\ pc = "loop"
    /\ hi <= Len(HemiLoop)
    /\ LET h == HemiLoop[hi]
       IN  IF h \notin DOMAIN args.nysubj.hemis
           THEN /\ Raise("KeyError", h)
                /\ UNCHANGED <<hi, endpoint_counts, loc, steps>>
           ELSE \E queryRaises \in
                       (IF endpoints = << >> THEN BOOLEAN ELSE {FALSE}) :
                \E here \in {LoopBody(Hemi(args.nysubj, h), endpoints,
                                      args.distance_threshold, args.output)} :
                    /\ steps' = steps \cup {"query"}
                    /\ IF queryRaises
                       THEN /\ Raise("ValueError", "query")
                            /\ UNCHANGED <<hi, endpoint_counts, loc>>
                       ELSE IF ~here.fits
                       THEN /\ Raise("ValueError", "could not broadcast")
                            /\ UNCHANGED <<hi, endpoint_counts, loc>>
                       ELSE /\ endpoint_counts' =
                                  [k \in DOMAIN endpoint_counts \cup {h} |->
                                      IF k = h THEN here.out
                                      ELSE endpoint_counts[k]]
                            /\ loc' = [k \in DOMAIN loc \cup {h} |->
                                          IF k = h THEN here ELSE loc[k]]
                            /\ hi' = hi + 1
                            /\ Goto(IF hi = Len(HemiLoop)
                                    THEN After("loop") ELSE "loop")
    /\ UNCHANGED <<args, streamlines, trk_heads, trk_tails, endpoints>>

(* line 120 *)
Return ==
    /\ pc = "return"
    /\ returned' = endpoint_counts
    /\ pc' = "done"
    /\ UNCHANGED <<args, streamlines, trk_heads, trk_tails, endpoints, hi,
                   endpoint_counts, loc, steps, raised>>

Next ==
    \/ CheckOutput
    \/ UnwrapStreamlines
    \/ ExtractEnds
    \/ ChooseEndpoints
    \/ ApplyAffine
    \/ HemiIteration
    \/ Return

Spec == Init /\ [][Next]_vars

----------------------------------------------------------------------------
(* Reference definitions the properties are stated with.  They describe    *)
(* the intended result from the arguments alone, by counting, and use none *)
(* of the operators the actions compute with.                              *)

Terminal == pc \in {"done", "raised"}

OutputMsg == "option output must be 'count' or 'pdf'"
EndMsg == "streamline_end must be 'head', 'tail', or 'both'"

OutputRecognized == args.output \in {"count", "pdf"}
EndRecognized == args.streamline_end \in {"head", "tail", "both"}

(* The streamlines of the call and their number *)
Sls == args.streamlines.data
NumSl == Len(Sls)

FirstPoint(k) == Sls[k][1]
LastPoint(k) == Sls[k][Len(Sls[k])]

(* The selected endpoints, before any affine *)
RefSelected ==
    [k \in 1..(IF args.streamline_end = "both" THEN 2 * NumSl ELSE NumSl) |->
        IF args.streamline_end = "head" THEN FirstPoint(k)
        ELSE IF args.streamline_end = "tail" THEN LastPoint(k)
        ELSE IF k <= NumSl THEN FirstPoint(k) ELSE LastPoint(k - NumSl)]

(* The selected endpoints as the meshes must see them *)
RefBatch ==
    [k \in DOMAIN RefSelected |->
        IF args.affine.given
        THEN args.affine.a * RefSelected[k] + args.affine.b
        ELSE RefSelected[k]]

VertsOf(h) == args.nysubj.hemis[h].verts

(* Point x is within the threshold of some vertex of the surface *)
Within(verts, x) ==
    \E j \in DOMAIN verts : Abs(x - verts[j]) < args.distance_threshold

(* Vertex v (0-based) is a nearest vertex of point x *)
IsNearest(verts, x, v) ==
    \A j \in DOMAIN verts : Abs(x - verts[v + 1]) <= Abs(x - verts[j])

(* The endpoints of a batch that vertex v of the surface must receive *)
RefCount(verts, batch, v) ==
    Cardinality({k \in DOMAIN batch :
                    IsNearest(verts, batch[k], v) /\ Within(verts, batch[k])})

(* The endpoints of a batch the surface retains *)
RefRetained(verts, batch) ==
    Cardinality({k \in DOMAIN batch : Within(verts, batch[k])})

(* The map a hemisphere must get for a batch *)
RefMap(verts, batch) ==
    LET total == RefRetained(verts, batch)
    IN  [v \in 0..(Len(verts) - 1) |->
            IF args.output = "pdf"
            THEN (IF total = 0 THEN NaN
                  ELSE Rat(RefCount(verts, batch, v), total))
            ELSE RefCount(verts, batch, v)]

----------------------------------------------------------------------------
(* C1: in count mode the vector returned for a hemisphere has one entry    *)
(* per vertex, each the natural number of queried endpoints that are       *)
(* nearest to that vertex and nearer than distance_threshold, and the      *)
(* entries sum to the number of endpoints the hemisphere retains.          *)
C1_CountVector ==
    (pc = "done" /\ args.output = "count") =>
        \A h \in Hemis :
            LET verts == VertsOf(h)
                batch == loc[h].queried
                vec == returned[h]
            IN  /\ DOMAIN vec = 0..(Len(verts) - 1)
                /\ Len(verts) = args.nysubj.hemis[h].vertex_count
                /\ \A v \in DOMAIN vec :
                      /\ vec[v] \in Nat
                      /\ vec[v] = RefCount(verts, batch, v)
                /\ SumTo(vec, Len(verts)) = RefRetained(verts, batch)

(* A count vector with a vertex hit more than once, an empty vertex past   *)
(* the last hit one, and a discarded endpoint.                             *)
C1_Witness ==
    /\ pc = "done"
    /\ args.output = "count"
    /\ \E h \in Hemis :
          LET vec == returned[h]
              V == Len(VertsOf(h))
          IN  /\ \E v \in DOMAIN vec : vec[v] >= 2
              /\ vec[V - 1] = 0
              /\ SumTo(vec, V) < Len(loc[h].queried)

(* C2: when the call has ended, in every hemisphere it processed an        *)
(* endpoint was kept exactly when its nearest-vertex distance is strictly  *)
(* below distance_threshold; the tally holds the kept endpoints and no     *)
(* others.                                                                 *)
C2_StrictThreshold ==
    Terminal => \A h \in DOMAIN loc :
        LET verts == VertsOf(h)
            batch == loc[h].queried
        IN  /\ \A k \in DOMAIN batch :
                  /\ loc[h].i[k] <=> Within(verts, batch[k])
                  /\ (\A j \in DOMAIN verts :
                         Abs(batch[k] - verts[j]) >= args.distance_threshold)
                        => ~loc[h].i[k]
            /\ Len(loc[h].vertex_i) = RefRetained(verts, batch)
            /\ np_sum(loc[h].epcount) = RefRetained(verts, batch)

(* An endpoint exactly at the threshold is dropped beside one that is kept *)
C2_Witness ==
    /\ pc = "done"
    /\ \E h \in Hemis :
          \E k1, k2 \in DOMAIN loc[h].queried :
              /\ loc[h].d[k1] = args.distance_threshold
              /\ ~loc[h].i[k1]
              /\ loc[h].d[k2] = args.distance_threshold - 1
              /\ loc[h].i[k2]
              /\ np_sum(loc[h].epcount) < Len(loc[h].queried)

(* C3 as stated: with an unrecognized output or end selector the call ends *)
(* in a ValueError and returns no map, whatever the other arguments are.   *)
C3_Original ==
    (Terminal /\ ~(OutputRecognized /\ EndRecognized)) =>
        /\ pc = "raised"
        /\ raised.type = "ValueError"
        /\ DOMAIN returned = {}

(* C3 amended: the call raises and returns no map; the error is the        *)
(* ValueError whenever the output is unrecognized, and, for an             *)
(* unrecognized end selector alone, whenever every streamline is non-empty *)
C3_InvalidArgsRaise ==
    (Terminal /\ ~(OutputRecognized /\ EndRecognized)) =>
        /\ pc = "raised"
        /\ DOMAIN returned = {}
        /\ ~OutputRecognized =>
              raised = [type |-> "ValueError", msg |-> OutputMsg]
        /\ (OutputRecognized /\ \A k \in DOMAIN Sls : Len(Sls[k]) > 0) =>
              raised = [type |-> "ValueError", msg |-> EndMsg]

(* An unrecognized end selector on well-formed streamlines has raised *)
C3_Witness ==
    /\ pc = "raised"
    /\ args.streamline_end = "middle"
    /\ args.output = "pdf"
    /\ NumSl = MaxStreamlines
    /\ raised.type = "ValueError"
    /\ DOMAIN returned = {}

(* C4: once the endpoints are chosen they are the first points for 'head', *)
(* the last points for 'tail', and all heads followed by all tails for     *)
(* 'both'; every mesh is queried with exactly that batch (moved by the     *)
(* affine, if given), so with 'both' a hemisphere tallies heads and tails  *)
(* separately.                                                             *)
C4_EndpointBatch ==
    /\ pc = "affine" =>
          /\ args.streamline_end = "head" =>
                /\ Len(endpoints) = NumSl
                /\ \A k \in 1..NumSl : endpoints[k] = Sls[k][1]
          /\ args.streamline_end = "tail" =>
                /\ Len(endpoints) = NumSl
                /\ \A k \in 1..NumSl : endpoints[k] = Sls[k][Len(Sls[k])]
          /\ args.streamline_end = "both" =>
                /\ Len(endpoints) = 2 * NumSl
                /\ \A k \in 1..NumSl :
                      /\ endpoints[k] = Sls[k][1]
                      /\ endpoints[NumSl + k] = Sls[k][Len(Sls[k])]
    /\ Terminal => \A h \in DOMAIN loc :
          LET batch == RefBatch
          IN  /\ loc[h].queried = batch
              /\ args.streamline_end = "both" =>
                    np_sum(loc[h].epcount) =
                        Cardinality({k \in 1..NumSl :
                                        Within(VertsOf(h), batch[k])})
                      + Cardinality({k \in 1..NumSl :
                                        Within(VertsOf(h), batch[NumSl + k])})

(* 'both' on streamlines whose heads differ from their tails: a streamline *)
(* has put two tallies into one hemisphere's map                           *)
C4_Witness ==
    /\ pc = "done"
    /\ args.streamline_end = "both"
    /\ NumSl = 1
    /\ Sls[1][1] # Sls[1][Len(Sls[1])]
    /\ np_sum(loc["lh"].epcount) = 2

(* C5: in pdf mode every entry of a hemisphere that retains an endpoint is *)
(* its count over the number of endpoints that same hemisphere retains,    *)
(* and the hemisphere's entries sum to one.                                *)
C5_PdfPerHemisphere ==
    (pc = "done" /\ args.output = "pdf") =>
        \A h \in Hemis :
            LET verts == VertsOf(h)
                batch == RefBatch
                total == RefRetained(verts, batch)
            IN  total >= 1 =>
                  /\ \A v \in 0..(Len(verts) - 1) :
                        returned[h][v] = Rat(RefCount(verts, batch, v), total)
                  /\ RatSumTo(returned[h], Len(verts)) = Rat(1, 1)

(* Both hemispheres retain endpoints, but different numbers of them, and   *)
(* one has a proper fraction                                               *)
C5_Witness ==
    /\ pc = "done"
    /\ args.output = "pdf"
    /\ RefRetained(VertsOf("lh"), RefBatch) >= 1
    /\ RefRetained(VertsOf("rh"), RefBatch) >= 1
    /\ RefRetained(VertsOf("lh"), RefBatch) # RefRetained(VertsOf("rh"), RefBatch)
    /\ \E v \in DOMAIN returned["lh"] :
          returned["lh"][v].kind = "fin" /\ returned["lh"][v].den > 1

(* C6: the caller receives a mapping only when the call returns, and then  *)
(* its keys are exactly lh and rh; a call that raises hands over nothing,  *)
(* also when lh had already been computed.                                 *)
C6_BothOrNothing ==
    /\ pc = "done" => DOMAIN returned = {"lh", "rh"}
    /\ pc # "done" => DOMAIN returned = {}

(* An error after the lh map was stored *)
C6_Witness ==
    /\ pc = "raised"
    /\ DOMAIN endpoint_counts = {"lh"}
    /\ np_sum(loc["lh"].epcount) >= 1
    /\ DOMAIN returned = {}

(* C7: the map of a hemisphere is the one its own surface gives for the    *)
(* batch of the call, whatever the other hemisphere's surface is, and both *)
(* hemispheres are queried with the same batch.                            *)
C7_HemispheresIndependent ==
    /\ pc = "raised" =>
          \A h \in DOMAIN endpoint_counts :
              endpoint_counts[h] = RefMap(VertsOf(h), RefBatch)
    /\ Terminal => \A h1, h2 \in DOMAIN loc : loc[h1].queried = loc[h2].queried
    /\ pc = "done" =>
          \A h \in Hemis : returned[h] = RefMap(VertsOf(h), RefBatch)

(* Different surfaces, and an endpoint that lh keeps and rh discards *)
C7_Witness ==
    /\ pc = "done"
    /\ VertsOf("lh") # VertsOf("rh")
    /\ \E k \in DOMAIN RefBatch :
          /\ Within(VertsOf("lh"), RefBatch[k])
          /\ ~Within(VertsOf("rh"), RefBatch[k])
    /\ RefRetained(VertsOf("rh"), RefBatch) >= 1

(* The call's result had affine been None: the maps of the chosen          *)
(* endpoints as they are                                                   *)
RefMapNoAffine(h) == RefMap(VertsOf(h), RefSelected)

(* C8: with the identity affine the call returns the maps it returns with  *)
(* affine=None.                                                            *)
C8_IdentityAffine ==
    (pc = "done" /\ args.affine = IdentityAffine) =>
        \A h \in Hemis :
            /\ loc[h].queried = RefSelected
            /\ returned[h] = RefMapNoAffine(h)

(* The identity affine was applied and endpoints were tallied *)
C8_Witness ==
    /\ pc = "done"
    /\ args.affine = IdentityAffine
    /\ "affine" \in steps
    /\ np_sum(loc["lh"].epcount) >= 2
    /\ np_sum(loc["rh"].epcount) >= 1

(* C9 as stated: an invalid-argument error is raised before any step that  *)
(* reads the streamlines, applies the affine or queries a mesh, and no     *)
(* other failure pre-empts it.                                             *)
C9_Original ==
    (Terminal /\ ~(OutputRecognized /\ EndRecognized)) =>
        /\ raised.msg \in {OutputMsg, EndMsg}
        /\ steps = {}

(* C9 amended: the output error is raised before any step and nothing      *)
(* pre-empts it; the end-selector error is raised after the unwrapping and *)
(* the extraction of heads and tails, before the affine and any query.     *)
C9_ErrorOrder ==
    /\ raised.msg = OutputMsg => steps = {}
    /\ (Terminal /\ ~OutputRecognized) => raised.msg = OutputMsg
    /\ raised.msg = EndMsg => steps = {"unwrap", "extract"}

(* The end-selector error after a trk object was unwrapped and read *)
C9_Witness ==
    /\ pc = "raised"
    /\ raised.msg = EndMsg
    /\ args.streamlines.isTrk
    /\ ~streamlines.isTrk
    /\ trk_heads # << >>
    /\ steps = {"unwrap", "extract"}

(* C10: in pdf mode a hemisphere that retains no endpoint gets a vector of *)
(* NaN, one per vertex; the division does not raise, and the other         *)
(* hemisphere's map is the normal one.                                     *)
C10_ZeroTotalIsNaN ==
    /\ (pc = "done" /\ args.output = "pdf") =>
          LET batch == RefBatch
          IN  \A h \in Hemis :
                RefRetained(VertsOf(h), batch) = 0 =>
                  /\ DOMAIN returned[h] = 0..(Len(VertsOf(h)) - 1)
                  /\ \A v \in DOMAIN returned[h] : returned[h][v] = NaN
                  /\ \A h2 \in Hemis \ {h} :
                        RefRetained(VertsOf(h2), batch) >= 1 =>
                            RatSumTo(returned[h2], Len(VertsOf(h2))) = Rat(1, 1)
    /\ (Terminal /\ args.output = "pdf" /\ EndRecognized
          /\ DOMAIN args.nysubj.hemis = Hemis /\ NumSl >= 1
          /\ \A k \in DOMAIN Sls : Len(Sls[k]) > 0) => pc = "done"

(* rh retains nothing and is all NaN while lh is a proper density *)
C10_Witness ==
    /\ pc = "done"
    /\ args.output = "pdf"
    /\ RefRetained(VertsOf("rh"), RefBatch) = 0
    /\ \A v \in DOMAIN returned["rh"] : returned["rh"][v].kind = "nan"
    /\ RefRetained(VertsOf("lh"), RefBatch) >= 2
    /\ \E v \in DOMAIN returned["lh"] : returned["lh"][v] = Rat(1, 1)

====
